---- MODULE Spec2Model ----
(***************************************************************************)
(* Model of apps/docs/scripts/convert-tables.py: the converter that        *)
(* rewrites markdown tables of an MDX document into TypeTable components.  *)
(*                                                                         *)
(* A Python str is modelled as a sequence of one-character strings, so     *)
(* that strip, split, replace, the regular expressions and the substring   *)
(* tests are computed character by character.  Three characters are       *)
(* written as tokens: EmDash (U+2014), MidDot (U+00B7) and BackTick (the   *)
(* grave accent U+0060).  A Python dict is a function on its keys, an      *)
(* integer key written in decimal ("1", "2", "3") beside the key "merge".  *)
(* Line indices are Python's: 0-based, blocks are half-open [start, end).  *)
(***************************************************************************)
EXTENDS Integers, Sequences, FiniteSets, TLC

VARIABLES
    content,    \* the text of the file convert_file works on
    before,     \* the text of the file when the last convert_file call began
    ret,        \* what the last convert_file call returned
    writes,     \* number of path.write_text calls made so far
    runs,       \* number of convert_file calls made so far
    trace,      \* locals of the last convert_file call (blocks, spliced lines, fragments)
    headers,    \* argument of headers_to_mapping / row_to_type_node
    mapping,    \* result of headers_to_mapping
    row,        \* argument of row_to_type_node
    entry,      \* result of row_to_type_node
    cell,       \* argument of to_jsx_string
    rendered,   \* result of to_jsx_string
    lines,      \* argument of find_table_blocks
    i,          \* find_table_blocks: loop index
    start,      \* find_table_blocks: start of the block being scanned
    blocks,     \* find_table_blocks: result list
    pc          \* position of the call being modelled

vars == <<content, before, ret, writes, runs, trace, headers, mapping, row,
          entry, cell, rendered, lines, i, start, blocks, pc>>

convertVars == <<content, before, ret, writes, runs, trace>>
classifyVars == <<headers, mapping>>
rowVars == <<row, entry>>
escapeVars == <<cell, rendered>>
locatorVars == <<lines, i, start, blocks>>

-----------------------------------------------------------------------------
(* Characters and Python str primitives                                    *)

NL == "\n"
EmDash == "EM"
MidDot == "MD"
BackSlash == "\\"
DQuote == "\""
BackTick == "BT"

\* F applied to the value of v: v is computed once, as Python computes the
\* right-hand side of an assignment once
Let(v, F(_)) == CHOOSE r \in {F(x) : x \in {v}} : TRUE

\* str.isspace for the characters of the model
IsSpace(c) == c \in {" ", "\t", "\n", "\r"}

SetMin(S0) == Let(S0, LAMBDA S : CHOOSE x \in S : \A y \in S : x <= y)
SetMax(S0) == Let(S0, LAMBDA S : CHOOSE x \in S : \A y \in S : y <= x)

\* the k-th smallest element of a finite set of integers
Kth(S0, k0) ==
    Let(<<S0, k0>>, LAMBDA a :
        CHOOSE e \in a[1] : Cardinality({x \in a[1] : x <= e}) = a[2])

RECURSIVE concat_range(_, _, _)
\* parts[lo] + ... + parts[hi] (1-based, inclusive), by halves
concat_range(parts, lo, hi) ==
    IF lo > hi THEN <<>>
    ELSE IF lo = hi THEN parts[lo]
    ELSE Let((lo + hi) \div 2, LAMBDA mid :
             concat_range(parts, lo, mid) \o concat_range(parts, mid + 1, hi))

\* "".join(parts)
concat(parts0) ==
    Let(parts0 \o <<>>, LAMBDA parts : concat_range(parts, 1, Len(parts)))

\* sep.join(parts)
join(sep, parts0) ==
    Let(parts0 \o <<>>, LAMBDA parts :
        concat([k \in 1..Len(parts) |->
                   IF k = 1 THEN parts[k] ELSE sep \o parts[k]]))

\* s.strip(chars) for a set of characters
strip_set(s0, drop) ==
    Let(s0, LAMBDA s :
    Let({k \in 1..Len(s) : s[k] \notin drop}, LAMBDA keep :
        IF keep = {} THEN <<>> ELSE SubSeq(s, SetMin(keep), SetMax(keep))))

\* s.strip()
strip(s0) ==
    Let(s0, LAMBDA s :
    Let({k \in 1..Len(s) : ~IsSpace(s[k])}, LAMBDA keep :
        IF keep = {} THEN <<>> ELSE SubSeq(s, SetMin(keep), SetMax(keep))))

\* s.rstrip("\n")
rstrip_nl(s0) ==
    Let(s0, LAMBDA s :
    Let({k \in 1..Len(s) : s[k] # NL}, LAMBDA keep :
        IF keep = {} THEN <<>> ELSE SubSeq(s, 1, SetMax(keep))))

\* s.startswith(p)
startswith(s0, p) ==
    Let(s0, LAMBDA s : Len(s) >= Len(p) /\ SubSeq(s, 1, Len(p)) = p)

\* p in s
contains(s0, p0) ==
    Let(<<s0, p0>>, LAMBDA a :
        \E k \in 1..(Len(a[1]) - Len(a[2]) + 1) :
            SubSeq(a[1], k, k + Len(a[2]) - 1) = a[2])

\* s.replace(c, r) for a one-character c
replace(s0, c, r) ==
    Let(s0, LAMBDA s :
        concat([k \in 1..Len(s) |-> IF s[k] = c THEN r ELSE <<s[k]>>]))

\* s.split(c) for a one-character c
split(s0, c) ==
    Let(s0, LAMBDA s :
    Let({k \in 1..Len(s) : s[k] = c}, LAMBDA at :
        [k \in 1..(Cardinality(at) + 1) |->
            SubSeq(s,
                   IF k = 1 THEN 1 ELSE Kth(at, k - 1) + 1,
                   IF k = Cardinality(at) + 1 THEN Len(s) ELSE Kth(at, k) - 1)]))

\* s.splitlines(keepends=True), the line boundary being "\n"
splitlines(s0) ==
    Let(s0, LAMBDA s :
    Let({k \in 1..Len(s) : s[k] = NL \/ k = Len(s)}, LAMBDA ends :
        [k \in 1..Cardinality(ends) |->
            SubSeq(s, IF k = 1 THEN 1 ELSE Kth(ends, k - 1) + 1, Kth(ends, k))]))

UpperCase == <<"A","B","C","D","E","F","G","H","I","J","K","L","M",
               "N","O","P","Q","R","S","T","U","V","W","X","Y","Z">>
LowerCase == <<"a","b","c","d","e","f","g","h","i","j","k","l","m",
               "n","o","p","q","r","s","t","u","v","w","x","y","z">>

\* s.lower()
lower(s0) ==
    Let(s0, LAMBDA s :
        [k \in 1..Len(s) |->
            IF \E u \in 1..Len(UpperCase) : UpperCase[u] = s[k]
            THEN LowerCase[CHOOSE u \in 1..Len(UpperCase) : UpperCase[u] = s[k]]
            ELSE s[k]])

\* whether d + "(.+?)" + d matches at position p (1-based) of s: d stands at
\* p, and again at some j past one more character, with no newline between;
\* closer is the first such j, which the non-greedy group stops at
closers(s, d, p) ==
    {j \in (p + Len(d) + 1)..(Len(s) - Len(d) + 1) : SubSeq(s, j, j + Len(d) - 1) = d}

matches_at(s, d, p) ==
    /\ p + Len(d) - 1 <= Len(s)
    /\ SubSeq(s, p, p + Len(d) - 1) = d
    /\ closers(s, d, p) # {}
    /\ \A m \in (p + Len(d))..(SetMin(closers(s, d, p)) - 1) : s[m] # NL

RECURSIVE unwrap_from(_, _, _)
\* re.sub(d + "(.+?)" + d, r"\1", s) scanning from position k (1-based):
\* the text up to the leftmost match is kept, the match is replaced by its
\* group, and the scan goes on after the match
unwrap_from(s, d, k) ==
    Let({p \in k..Len(s) : matches_at(s, d, p)}, LAMBDA opens :
        IF opens = {} THEN SubSeq(s, k, Len(s))
        ELSE Let(SetMin(opens), LAMBDA p :
             Let(SetMin(closers(s, d, p)), LAMBDA j :
                 SubSeq(s, k, p - 1) \o SubSeq(s, p + Len(d), j - 1)
                 \o unwrap_from(s, d, j + Len(d)))))

\* re.sub(r"\*\*(.+?)\*\*", r"\1", s)
sub_bold(s0) == Let(s0, LAMBDA s : unwrap_from(s, <<"*", "*">>, 1))

\* re.sub(r"`(.+?)`", r"\1", s)
sub_code(s0) == Let(s0, LAMBDA s : unwrap_from(s, <<BackTick>>, 1))

\* seq[a:b] of Python, 0-based and clamped to the list
py_slice(seq0, a0, b0) ==
    Let(<<seq0, a0, b0>>, LAMBDA t :
        LET n == Len(t[1])
            lo == IF t[2] > n THEN n ELSE t[2]
            hi == IF t[3] > n THEN n ELSE t[3]
        IN  IF hi <= lo THEN <<>> ELSE SubSeq(t[1], lo + 1, hi))

-----------------------------------------------------------------------------
(* String constants of the script                                          *)

IMPORT_LINE ==
    <<"i","m","p","o","r","t"," ","{"," ","T","y","p","e","T","a","b","l","e",
      " ","}"," ","f","r","o","m"," ","'","f","u","m","a","d","o","c","s","-",
      "u","i","/","c","o","m","p","o","n","e","n","t","s","/","t","y","p","e",
      "-","t","a","b","l","e","'",";","\n">>

F_type == <<"t","y","p","e">>
F_description == <<"d","e","s","c","r","i","p","t","i","o","n">>
F_default == <<"d","e","f","a","u","l","t">>
W_method == <<"m","e","t","h","o","d">>
W_binding == <<"b","i","n","d","i","n","g">>
W_protocol == <<"p","r","o","t","o","c","o","l">>
W_format == <<"f","o","r","m","a","t">>
W_strategy == <<"s","t","r","a","t","e","g","y">>
W_returns == <<"r","e","t","u","r","n","s">>
S_quot == <<"&","q","u","o","t",";">>
S_import == <<"i","m","p","o","r","t"," ">>
S_fumadocs == <<"f","u","m","a","d","o","c","s">>
S_fence == <<"-","-","-">>
S_open == <<"<","T","y","p","e","T","a","b","l","e","\n"," "," ","t","y","p","e","=","{","\n">>
S_close == <<" "," ","}","\n","/",">">>
Indent4 == <<" "," "," "," ">>
Indent6 == <<" "," "," "," "," "," ">>

\* the decimal dict key of a column index
IntKey(k) == <<"1", "2", "3">>[k]

-----------------------------------------------------------------------------
(* parse_table                                                             *)

\* re.match(r"^\|[-| :]+\|?\s*$", s)
separator_match(s0) ==
    Let(s0, LAMBDA s :
        /\ Len(s) >= 2
        /\ s[1] = "|"
        /\ \E k \in 2..Len(s) :
              /\ \A m \in 2..k : s[m] \in {"-", "|", " ", ":"}
              /\ \E opt \in {0, 1} :
                    /\ opt = 1 => (k + 1 <= Len(s) /\ s[k + 1] = "|")
                    /\ \A m \in (k + opt + 1)..Len(s) : IsSpace(s[m]))

split_row(line) ==
    Let(split(strip_set(strip(line), {"|"}), "|"), LAMBDA cells :
        [k \in 1..Len(cells) |-> strip(cells[k])])

\* None is [ok |-> FALSE, ...]
parse_table(ls0) ==
    Let(ls0, LAMBDA ls :
        IF Len(ls) < 3 THEN [ok |-> FALSE, headers |-> <<>>, rows |-> <<>>]
        ELSE IF ~separator_match(ls[2])
        THEN [ok |-> FALSE, headers |-> <<>>, rows |-> <<>>]
        ELSE Let(SelectSeq(SubSeq(ls, 3, Len(ls)),
                           LAMBDA l : startswith(strip(l), <<"|">>)),
                 LAMBDA data :
                    [ok |-> TRUE,
                     headers |-> split_row(ls[1]),
                     rows |-> [k \in 1..Len(data) |-> split_row(data[k])]]))

-----------------------------------------------------------------------------
(* to_jsx_key, to_jsx_string                                               *)

to_jsx_key(s) ==
    Let(strip(s), LAMBDA s1 :
    Let(sub_bold(s1), LAMBDA s2 :
    Let(sub_code(s2), LAMBDA s3 :
    Let(replace(s3, DQuote, <<BackSlash, DQuote>>), LAMBDA s4 :
        <<DQuote>> \o s4 \o <<DQuote>>))))

\* to_jsx_string without the replace of the backslash
to_jsx_string_backslash_kept(s) ==
    Let(strip(s), LAMBDA s1 :
    Let(sub_bold(s1), LAMBDA s2 :
        IF \E k \in 1..Len(s2) : s2[k] \in {BackTick, "<", ">", "{"}
        THEN Let(replace(s2, BackTick, <<BackSlash, BackTick>>), LAMBDA e2 :
             Let(replace(e2, "$", <<BackSlash, "$">>), LAMBDA e3 :
                 <<"{", BackTick>> \o e3 \o <<BackTick, "}">>))
        ELSE <<DQuote>> \o replace(s2, DQuote, S_quot) \o <<DQuote>>))

to_jsx_string(s) ==
    Let(strip(s), LAMBDA s1 :
    Let(sub_bold(s1), LAMBDA s2 :
        IF \E k \in 1..Len(s2) : s2[k] \in {BackTick, "<", ">", "{"}
        THEN Let(replace(s2, BackSlash, <<BackSlash, BackSlash>>), LAMBDA e1 :
             Let(replace(e1, BackTick, <<BackSlash, BackTick>>), LAMBDA e2 :
             Let(replace(e2, "$", <<BackSlash, "$">>), LAMBDA e3 :
                 <<"{", BackTick>> \o e3 \o <<BackTick, "}">>)))
        ELSE <<DQuote>> \o replace(s2, DQuote, S_quot) \o <<DQuote>>))

-----------------------------------------------------------------------------
(* headers_to_mapping                                                      *)

\* any(x in s for x in words)
any_in(words, s0) == Let(s0, LAMBDA s : \E w \in words : contains(s, w))

\* lines 83-95: the rules for key + 2 columns, h1 and h2 lower-cased
rules_3_default_first(h1, h2) ==
    IF any_in({F_default}, h2)
    THEN ("1" :> F_description) @@ ("2" :> F_default)
    ELSE IF any_in({F_type}, h1)
    THEN ("1" :> F_type) @@ ("2" :> F_description)
    ELSE IF any_in({W_method, W_binding, W_protocol, W_format,
                    W_strategy, W_returns}, h1)
    THEN ("1" :> F_type) @@ ("2" :> F_description)
    ELSE [merge |-> <<1, 2>>]

rules_3(h1, h2) ==
    IF any_in({F_type}, h1)
    THEN ("1" :> F_type) @@ ("2" :> F_description)
    ELSE IF any_in({F_default}, h2)
    THEN ("1" :> F_description) @@ ("2" :> F_default)
    ELSE IF any_in({W_method, W_binding, W_protocol, W_format,
                    W_strategy, W_returns}, h1)
    THEN ("1" :> F_type) @@ ("2" :> F_description)
    ELSE [merge |-> <<1, 2>>]

\* lines 97-106: the rules for key + 3 columns
rules_4(h1, h2, h3) ==
    IF any_in({F_type}, h1) /\ any_in({F_default}, h3)
    THEN ("1" :> F_type) @@ ("2" :> F_description) @@ ("3" :> F_default)
    ELSE IF any_in({F_default}, h3)
    THEN ("1" :> F_description) @@ ("2" :> F_type) @@ ("3" :> F_default)
    ELSE IF any_in({F_type}, h1)
    THEN ("1" :> F_type) @@ ("2" :> F_description) @@ ("3" :> F_default)
    ELSE [merge |-> <<1, 2, 3>>]

headers_to_mapping(hs) ==
    Let([k \in 1..Len(hs) |-> strip(lower(hs[k]))] \o <<>>, LAMBDA h :
        IF Len(h) = 2 THEN ("1" :> F_description)
        ELSE IF Len(h) = 3 THEN rules_3(h[2], h[3])
        ELSE IF Len(h) = 4 THEN rules_4(h[2], h[3], h[4])
        ELSE [merge |-> [k \in 1..(Len(h) - 1) |-> k]])

-----------------------------------------------------------------------------
(* row_to_type_node, table_to_type_table                                   *)

\* "not val or val in (em dash, hyphen)": a cell the renderer leaves out
is_placeholder(val0) ==
    Let(val0, LAMBDA val : val = <<>> \/ val \in {<<EmDash>>, <<"-">>})

\* lines 118-130: the props of a row under a merge mapping
merge_props(r, m, hs) ==
    Let(concat([c \in 1..Len(m["merge"]) |->
            Let(m["merge"][c], LAMBDA col_idx :
                IF col_idx < Len(r) /\ ~is_placeholder(strip(r[col_idx + 1]))
                THEN IF hs # <<>> /\ col_idx < Len(hs)
                     THEN <<strip(hs[col_idx + 1]) \o <<":", " ">>
                              \o strip(r[col_idx + 1])>>
                     ELSE <<strip(r[col_idx + 1])>>
                ELSE <<>>)]), LAMBDA parts :
        IF parts # <<>>
        THEN <<Indent6 \o F_description \o <<":", " ">>
                 \o to_jsx_string(join(<<" ", MidDot, " ">>, parts))
                 \o <<",">>>>
        ELSE <<>>)

\* lines 132-140: the props of a row under a field mapping
field_props(r, m) ==
    concat([col_idx \in 1..3 |->
        IF /\ IntKey(col_idx) \in DOMAIN m
           /\ col_idx < Len(r)
           /\ ~is_placeholder(strip(r[col_idx + 1]))
        THEN <<Indent6 \o m[IntKey(col_idx)] \o <<":", " ">>
                 \o to_jsx_string(strip(r[col_idx + 1])) \o <<",">>>>
        ELSE <<>>])

\* row_to_type_node giving no entry to a row without props
row_to_type_node_drops_empty(key0, r0, m0, hs0) ==
    Let(<<key0, r0, m0, hs0>>, LAMBDA a :
    Let(IF "merge" \in DOMAIN a[3] THEN merge_props(a[2], a[3], a[4])
        ELSE field_props(a[2], a[3]), LAMBDA props :
    Let(to_jsx_key(a[1]), LAMBDA key_str :
        IF props = <<>>
        THEN <<>>
        ELSE Indent4 \o key_str \o <<":", " ", "{", "\n">>
                \o join(<<"\n">>, props)
                \o <<"\n">> \o Indent4 \o <<"}", ",", "\n">>)))

row_to_type_node(key0, r0, m0, hs0) ==
    Let(<<key0, r0, m0, hs0>>, LAMBDA a :
    Let(IF "merge" \in DOMAIN a[3] THEN merge_props(a[2], a[3], a[4])
        ELSE field_props(a[2], a[3]), LAMBDA props :
    Let(to_jsx_key(a[1]), LAMBDA key_str :
        IF props = <<>>
        THEN Indent4 \o key_str \o <<":", " ", "{", "}", ",", "\n">>
        ELSE Indent4 \o key_str \o <<":", " ", "{", "\n">>
                \o join(<<"\n">>, props)
                \o <<"\n">> \o Indent4 \o <<"}", ",", "\n">>)))

\* the rows table_to_type_table renders: "if not row or not row[0]: continue"
keyed_rows(rows) == SelectSeq(rows, LAMBDA r : r # <<>> /\ r[1] # <<>>)

table_to_type_table(hs0, rows0) ==
    Let(<<hs0, rows0>>, LAMBDA a :
    Let(headers_to_mapping(a[1]), LAMBDA m :
    Let(keyed_rows(a[2]), LAMBDA kept :
        S_open
        \o concat([k \in 1..Len(kept) |->
                      row_to_type_node(strip(kept[k][1]), kept[k], m, a[1])])
        \o S_close)))

-----------------------------------------------------------------------------
(* find_table_blocks, as a function of its argument                        *)

RECURSIVE block_end(_, _)
\* the inner while: the first index from k on whose line does not start
\* with "|", or len(lines)
block_end(ls, k) ==
    IF k < Len(ls) /\ startswith(ls[k + 1], <<"|">>)
    THEN Let(k + 1, LAMBDA k1 : block_end(ls, k1))
    ELSE k

RECURSIVE blocks_from(_, _, _)
\* the outer while, from index k with the blocks found so far
blocks_from(ls, k, found) ==
    IF k >= Len(ls) THEN found
    ELSE IF startswith(ls[k + 1], <<"|">>)
    THEN Let(block_end(ls, k), LAMBDA e :
         Let(Append(found, <<k, e>>), LAMBDA found1 :
             blocks_from(ls, e, found1)))
    ELSE Let(k + 1, LAMBDA k1 : blocks_from(ls, k1, found))

find_table_blocks(ls0) == Let(ls0 \o <<>>, LAMBDA ls : blocks_from(ls, 0, <<>>))

-----------------------------------------------------------------------------
(* convert_file                                                            *)

\* replace_block with the fragment put in front of the block, whose lines stay
replace_block_keeps_table(st0, blk0) ==
    Let(<<st0, blk0>>, LAMBDA a :
    Let(py_slice(a[1].lines, a[2][1], a[2][2]), LAMBDA block_lines :
    Let(parse_table([k \in 1..Len(block_lines) |-> rstrip_nl(block_lines[k])]),
        LAMBDA parsed :
        IF ~parsed.ok \/ parsed.rows = <<>> THEN a[1]
        ELSE Let(table_to_type_table(parsed.headers, parsed.rows) \o <<"\n">>,
                 LAMBDA jsx :
                    [lines |-> py_slice(a[1].lines, 0, a[2][1]) \o <<jsx>>
                                 \o py_slice(a[1].lines, a[2][1], Len(a[1].lines)),
                     modified |-> TRUE,
                     replaced |-> <<[start |-> a[2][1], end |-> a[2][2],
                                     headers |-> parsed.headers \o <<>>,
                                     rows |-> parsed.rows \o <<>>,
                                     jsx |-> jsx]>>
                                  \o a[1].replaced]))))

\* one iteration of "for start, end in reversed(blocks)" on the loop state
\* st = [lines, modified, replaced]; replaced records, for each block that
\* was spliced, its range, its parsed table and the fragment written
replace_block(st0, blk0) ==
    Let(<<st0, blk0>>, LAMBDA a :
    Let(py_slice(a[1].lines, a[2][1], a[2][2]), LAMBDA block_lines :
    Let(parse_table([k \in 1..Len(block_lines) |-> rstrip_nl(block_lines[k])]),
        LAMBDA parsed :
        IF ~parsed.ok \/ parsed.rows = <<>> THEN a[1]
        ELSE Let(table_to_type_table(parsed.headers, parsed.rows) \o <<"\n">>,
                 LAMBDA jsx :
                    [lines |-> py_slice(a[1].lines, 0, a[2][1]) \o <<jsx>>
                                 \o py_slice(a[1].lines, a[2][2], Len(a[1].lines)),
                     modified |-> TRUE,
                     replaced |-> <<[start |-> a[2][1], end |-> a[2][2],
                                     headers |-> parsed.headers \o <<>>,
                                     rows |-> parsed.rows \o <<>>,
                                     jsx |-> jsx]>>
                                  \o a[1].replaced]))))

RECURSIVE replace_from(_, _, _)
RECURSIVE replace_onward(_, _, _)
\* the iterations for blocks k, k+1, ..., len(blocks): the loop without reversed
replace_onward(st, blks, k) ==
    IF k > Len(blks) THEN st
    ELSE Let(replace_block(st, blks[k]), LAMBDA st1 :
         Let(k + 1, LAMBDA k1 : replace_onward(st1, blks, k1)))

\* the iterations for blocks k, k-1, ..., 1 (1-based position in blocks)
replace_from(st, blks, k) ==
    IF k = 0 THEN st
    ELSE Let(replace_block(st, blks[k]), LAMBDA st1 :
         Let(k - 1, LAMBDA k1 : replace_from(st1, blks, k1)))

\* the loop over blocks in place of reversed(blocks)
replace_blocks_first_to_last(ls0, blks0) ==
    Let(<<ls0, blks0>>, LAMBDA a :
        replace_onward([lines |-> a[1], modified |-> FALSE, replaced |-> <<>>],
                       a[2], 1))

\* the whole loop of lines 192-204
replace_blocks(ls0, blks0) ==
    Let(<<ls0, blks0>>, LAMBDA a :
        replace_from([lines |-> a[1], modified |-> FALSE, replaced |-> <<>>],
                     a[2], Len(a[2])))

RECURSIVE import_pass(_, _, _)
\* the loop of lines 214-219 from position k, on the loop state
\* st = [lines (new_lines), inserted]
import_pass(ls, k, st) ==
    IF k > Len(ls) THEN st
    ELSE Let(/\ ~st.inserted
             /\ startswith(strip(ls[k]), S_import)
             /\ contains(ls[k], S_fumadocs), LAMBDA hit :
         Let([lines |-> IF hit THEN st.lines \o <<ls[k], IMPORT_LINE>>
                        ELSE Append(st.lines, ls[k]),
              inserted |-> st.inserted \/ hit], LAMBDA st1 :
         Let(k + 1, LAMBDA k1 : import_pass(ls, k1, st1))))

RECURSIVE frontmatter_pass(_, _, _)
\* the loop of lines 225-233 from position k, on the loop state
\* st = [lines (result), in_frontmatter, fm_closed]
frontmatter_pass(ls, k, st) ==
    IF k > Len(ls) THEN st.lines
    ELSE Let(strip(ls[k]) = S_fence, LAMBDA fence :
         Let([lines |-> IF fence /\ st.in_frontmatter /\ ~st.fm_closed
                        THEN st.lines \o <<ls[k], <<"\n">>, IMPORT_LINE>>
                        ELSE Append(st.lines, ls[k]),
              in_frontmatter |-> st.in_frontmatter \/ fence,
              fm_closed |-> st.fm_closed
                            \/ (fence /\ st.in_frontmatter /\ ~st.fm_closed)],
             LAMBDA st1 :
         Let(k + 1, LAMBDA k1 : frontmatter_pass(ls, k1, st1))))

\* lines 210-235: the lines with the import added
add_import(ls0) ==
    Let(ls0, LAMBDA ls :
    Let(import_pass(ls, 1, [lines |-> <<>>, inserted |-> FALSE]), LAMBDA first :
        IF first.inserted THEN first.lines
        ELSE frontmatter_pass(first.lines, 1,
                              [lines |-> <<>>, in_frontmatter |-> FALSE,
                               fm_closed |-> FALSE])))

NoTrace == [blocks |-> <<>>, has_import |-> FALSE, spliced |-> <<>>,
            replaced |-> <<>>]

\* convert_file without "if not modified: return False"
convert_file_always_writes(text0) ==
    Let(text0, LAMBDA text :
    Let(splitlines(text) \o <<>>, LAMBDA lines0 :
    Let(find_table_blocks([k \in 1..Len(lines0) |-> rstrip_nl(lines0[k])]),
        LAMBDA blks :
        IF blks = <<>>
        THEN [ret |-> FALSE, written |-> FALSE, text |-> text, trace |-> NoTrace]
        ELSE
    Let(contains(text, strip(IMPORT_LINE)), LAMBDA has_import :
    Let(replace_blocks(lines0, blks), LAMBDA st :
    Let([blocks |-> blks, has_import |-> has_import,
         spliced |-> st.lines, replaced |-> st.replaced], LAMBDA tr :
        [ret |-> TRUE, written |-> TRUE,
         text |-> concat(IF has_import THEN st.lines
                         ELSE add_import(st.lines)),
         trace |-> tr]))))))

\* convert_file on a file holding text: what it returns, whether it wrote,
\* the text of the file afterwards, and its locals
convert_file(text0) ==
    Let(text0, LAMBDA text :
    Let(splitlines(text) \o <<>>, LAMBDA lines0 :
    Let(find_table_blocks([k \in 1..Len(lines0) |-> rstrip_nl(lines0[k])]),
        LAMBDA blks :
        IF blks = <<>>
        THEN [ret |-> FALSE, written |-> FALSE, text |-> text, trace |-> NoTrace]
        ELSE
    Let(contains(text, strip(IMPORT_LINE)), LAMBDA has_import :
    Let(replace_blocks(lines0, blks), LAMBDA st :
    Let([blocks |-> blks, has_import |-> has_import,
         spliced |-> st.lines, replaced |-> st.replaced], LAMBDA tr :
        IF ~st.modified
        THEN [ret |-> FALSE, written |-> FALSE, text |-> text, trace |-> tr]
        ELSE [ret |-> TRUE, written |-> TRUE,
              text |-> concat(IF has_import THEN st.lines
                              ELSE add_import(st.lines)),
              trace |-> tr]))))))

-----------------------------------------------------------------------------
(* Bounds and input pools                                                  *)

MaxSegs == 3        \* pieces a document is put together from
MaxRuns == 2        \* convert_file calls on one file
MaxCols == 5        \* header cells of a classified table
MaxToks == 4        \* tokens of a cell value handed to to_jsx_string
MaxCells == 3       \* cells of a rendered row, the key cell included
MaxLines == 5       \* lines handed to find_table_blocks

SegText == <<"x","\n">>
SegFence == <<"-","-","-","\n">>
SegFuma == <<"i","m","p","o","r","t"," ","'","f","u","m","a","d","o","c","s","'","\n">>
SegTable == <<"|","N","|","D","|","\n","|","-","|","-","|","\n","|","a","|","x","|","\n">>
SegTable3 == <<"|","N","|","T","y","p","e","|","D","|","\n",
               "|","-","|","-","|","-","|","\n",
               "|","k","|",BackTick,"s",BackTick,"|","-","|","\n">>
SegRowB == <<"|","b","|","-","|","\n">>
SegRowE == <<"|"," ","|","y","|","\n">>

\* pieces of a document: prose, a front-matter fence, an import of the
\* component family, the TypeTable import, two well-formed tables, and two
\* table rows (one with a placeholder cell, one without a key) that extend
\* a table they follow and form a block without separator otherwise
SegPool == {SegText, SegFence, SegFuma, IMPORT_LINE, SegTable, SegTable3,
            SegRowB, SegRowE}

H_Name == <<"N","a","m","e">>
H_Type == <<"T","y","p","e">>
H_DEFAULT == <<" ","D","E","F","A","U","L","T"," ">>
H_Method == <<"M","e","t","h","o","d">>
H_Binding == <<"B","i","n","d","i","n","g">>
H_Protocol == <<"P","r","o","t","o","c","o","l">>
H_Format == <<"F","o","r","m","a","t">>
H_Strategy == <<"S","t","r","a","t","e","g","y">>
H_Returns == <<"R","e","t","u","r","n","s">>
H_Notes == <<"N","o","t","e","s">>
H_Subtype == <<"S","u","b","t","y","p","e">>
H_Default == <<"D","e","f","a","u","l","t">>
H_Info == <<"I","n","f","o">>

KeyHeaderPool == {H_Name, H_Type}
HeaderPool == {H_Type, H_DEFAULT, H_Method, H_Binding, H_Protocol, H_Format,
               H_Strategy, H_Returns, H_Notes, H_Subtype}
ExtraHeaderPool == {H_Notes, H_Default}

\* header rows: the key column, three columns the rules read, more columns
HeaderRows ==
    UNION {{hs \in [1..n -> KeyHeaderPool \cup HeaderPool \cup ExtraHeaderPool] :
               \A k \in 1..n :
                   hs[k] \in (IF k = 1 THEN KeyHeaderPool
                              ELSE IF k <= 4 THEN HeaderPool
                              ELSE ExtraHeaderPool)} : n \in 1..MaxCols}

\* tokens a cell value is put together from
TokPool == {<<"a">>, <<"*","*">>, <<BackTick>>, <<"<">>, <<">">>, <<"{">>,
            <<BackSlash>>, <<"$">>, <<DQuote>>, <<" ">>}

\* cells of a row to render
CellPool == {<<"x">>, <<"-">>, <<EmDash>>, <<"*","*","-","*","*">>,
             <<"*","*",EmDash,"*","*">>, <<>>, <<" ","-"," ">>}

\* header rows of the rendered rows: one description column, a type and a
\* description column, two columns merged into the description
RowHeaderPool == {<<H_Name, H_Info>>, <<H_Name, H_Type, H_Info>>,
                  <<H_Name, H_Notes, H_Info>>}

\* lines handed to the locator
LinePool == {<<"|","a","|">>, <<"x">>, <<>>, <<" ","|">>}

-----------------------------------------------------------------------------
(* The converter run on one file: Spec                                     *)

IdleConvert ==
    /\ content = <<>> /\ before = <<>> /\ ret = FALSE
    /\ writes = 0 /\ runs = 0 /\ trace = NoTrace
IdleClassify == headers = <<>> /\ mapping = <<>>
IdleRow == row = <<>> /\ entry = <<>>
IdleEscape == cell = <<>> /\ rendered = <<>>
IdleLocator == lines = <<>> /\ i = 0 /\ start = 0 /\ blocks = <<>>

\* a document: up to MaxSegs pieces, with or without its last newline
Documents ==
    UNION {{IF nl \/ concat(segs) = <<>> THEN concat(segs)
            ELSE SubSeq(concat(segs), 1, Len(concat(segs)) - 1) :
               nl \in BOOLEAN} :
           segs \in UNION {[1..n -> SegPool] : n \in 0..MaxSegs}}

Init ==
    /\ content \in Documents
    /\ before = content
    /\ ret = FALSE /\ writes = 0 /\ runs = 0 /\ trace = NoTrace
    /\ IdleClassify /\ IdleRow /\ IdleEscape /\ IdleLocator
    /\ pc = "file"

\* main calls convert_file(path) on the file
ConvertFile ==
    /\ pc = "file"
    /\ runs < MaxRuns
    /\ \E r \in {convert_file(content)} :
           /\ content' = r.text
           /\ before' = content
           /\ ret' = r.ret
           /\ writes' = writes + (IF r.written THEN 1 ELSE 0)
           /\ trace' = r.trace
    /\ runs' = runs + 1
    /\ UNCHANGED <<classifyVars, rowVars, escapeVars, locatorVars, pc>>

Next == ConvertFile

Spec == Init /\ [][Next]_vars

-----------------------------------------------------------------------------
(* headers_to_mapping applied to a header row: SpecClassify                *)

InitClassify ==
    /\ headers \in HeaderRows
    /\ mapping = <<>>
    /\ IdleConvert /\ IdleRow /\ IdleEscape /\ IdleLocator
    /\ pc = "input"

Classify ==
    /\ pc = "input"
    /\ mapping' = headers_to_mapping(headers)
    /\ pc' = "returned"
    /\ UNCHANGED <<headers, convertVars, rowVars, escapeVars, locatorVars>>

NextClassify == Classify

SpecClassify == InitClassify /\ [][NextClassify]_vars

-----------------------------------------------------------------------------
(* to_jsx_string applied to a cell value: SpecEscape                       *)

CellValues == {concat(toks) : toks \in UNION {[1..n -> TokPool] : n \in 0..MaxToks}}

InitEscape ==
    /\ cell \in CellValues
    /\ rendered = <<>>
    /\ IdleConvert /\ IdleClassify /\ IdleRow /\ IdleLocator
    /\ pc = "input"

Escape ==
    /\ pc = "input"
    /\ rendered' = to_jsx_string(cell)
    /\ pc' = "returned"
    /\ UNCHANGED <<cell, convertVars, classifyVars, rowVars, locatorVars>>

NextEscape == Escape

SpecEscape == InitEscape /\ [][NextEscape]_vars

-----------------------------------------------------------------------------
(* row_to_type_node applied to a row, as table_to_type_table calls it:     *)
(* SpecRow                                                                 *)

Rows == {<<<<"k">>>> \o cells :
            cells \in UNION {[1..n -> CellPool] : n \in 0..(MaxCells - 1)}}

InitRow ==
    /\ headers \in RowHeaderPool
    /\ row \in Rows
    /\ mapping = <<>> /\ entry = <<>>
    /\ IdleConvert /\ IdleEscape /\ IdleLocator
    /\ pc = "input"

RenderRow ==
    /\ pc = "input"
    /\ mapping' = headers_to_mapping(headers)
    /\ entry' = row_to_type_node(strip(row[1]), row,
                                 headers_to_mapping(headers), headers)
    /\ pc' = "returned"
    /\ UNCHANGED <<headers, row, convertVars, escapeVars, locatorVars>>

NextRow == RenderRow

SpecRow == InitRow /\ [][NextRow]_vars

-----------------------------------------------------------------------------
(* find_table_blocks, one loop test at a time: SpecLocator                 *)

\* the inner loop test without the test of the line
inner_continues_to_end == i < Len(lines)

\* line 170: i < len(lines) and lines[i].startswith("|")
inner_continues == i < Len(lines) /\ startswith(lines[i + 1], <<"|">>)

InitLocator ==
    /\ lines \in UNION {[1..n -> LinePool] : n \in 0..MaxLines}
    /\ i = 0 /\ start = 0 /\ blocks = <<>>
    /\ IdleConvert /\ IdleClassify /\ IdleRow /\ IdleEscape
    /\ pc = "outer"

\* outer loop, the line starts a block: start = i
LocStartBlock ==
    /\ pc = "outer"
    /\ i < Len(lines)
    /\ startswith(lines[i + 1], <<"|">>)
    /\ start' = i
    /\ pc' = "inner"
    /\ UNCHANGED <<lines, i, blocks>>

\* inner loop body: i += 1
LocInnerStep ==
    /\ pc = "inner"
    /\ inner_continues
    /\ i' = i + 1
    /\ UNCHANGED <<lines, start, blocks, pc>>

\* inner loop exit: blocks.append((start, i))
LocCloseBlock ==
    /\ pc = "inner"
    /\ ~inner_continues
    /\ blocks' = Append(blocks, <<start, i>>)
    /\ pc' = "outer"
    /\ UNCHANGED <<lines, i, start>>

\* outer loop, else branch: i += 1
LocSkipLine ==
    /\ pc = "outer"
    /\ i < Len(lines)
    /\ ~startswith(lines[i + 1], <<"|">>)
    /\ i' = i + 1
    /\ UNCHANGED <<lines, start, blocks, pc>>

\* outer loop exit: return blocks
LocReturn ==
    /\ pc = "outer"
    /\ i >= Len(lines)
    /\ pc' = "done"
    /\ UNCHANGED <<lines, i, start, blocks>>

NextLocator ==
    \/ (LocStartBlock /\ UNCHANGED <<convertVars, classifyVars, rowVars, escapeVars>>)
    \/ (LocInnerStep /\ UNCHANGED <<convertVars, classifyVars, rowVars, escapeVars>>)
    \/ (LocCloseBlock /\ UNCHANGED <<convertVars, classifyVars, rowVars, escapeVars>>)
    \/ (LocSkipLine /\ UNCHANGED <<convertVars, classifyVars, rowVars, escapeVars>>)
    \/ (LocReturn /\ UNCHANGED <<convertVars, classifyVars, rowVars, escapeVars>>)

\* the loop is sequential code: it takes its next step whenever it has one
SpecLocator == InitLocator /\ [][NextLocator]_vars /\ WF_vars(NextLocator)

-----------------------------------------------------------------------------
(* Table Locator                                                           *)

\* whether the line at 0-based index k starts with the marker
Marked(k) == startswith(lines[k + 1], <<"|">>)

BlocksAreMaximalRuns ==
    /\ \A b \in 1..Len(blocks) :
          /\ 0 <= blocks[b][1]
          /\ blocks[b][1] < blocks[b][2]
          /\ blocks[b][2] <= Len(lines)
          /\ \A k \in blocks[b][1]..(blocks[b][2] - 1) : Marked(k)
          /\ blocks[b][1] > 0 => ~Marked(blocks[b][1] - 1)
          /\ blocks[b][2] < Len(lines) => ~Marked(blocks[b][2])
    /\ \A b \in 1..(Len(blocks) - 1) : blocks[b][2] <= blocks[b + 1][1]
    /\ \A k \in 0..(Len(lines) - 1) :
          Marked(k) =>
              Cardinality({b \in 1..Len(blocks) :
                              blocks[b][1] <= k /\ k < blocks[b][2]}) = 1

\* C7: for every sequence of lines the scan of find_table_blocks ends, and
\* the pairs it returns are in increasing order and disjoint, every line of
\* a pair's range starts with "|", the lines just before and just after the
\* range do not, and every line that starts with "|" is in exactly one range
LocatorFindsMaximalRuns ==
    /\ [](pc = "done" => BlocksAreMaximalRuns)
    /\ <>(pc = "done")

\* the scan has returned two blocks, the first of two lines or more, and
\* the last line of the input is in no block
LocatorWitness ==
    /\ pc = "done"
    /\ Len(blocks) = 2
    /\ blocks[1][2] - blocks[1][1] >= 2
    /\ blocks[2][2] < Len(lines)

-----------------------------------------------------------------------------
(* Column-Role Classifier                                                  *)

\* whether the lower-cased header of column c (0-based) contains the word
HeaderHas(c, word) == contains(lower(headers[c + 1]), word)

TypeLikeWords == {W_method, W_binding, W_protocol, W_format, W_strategy, W_returns}

\* the result of the first rule of an ordered list whose condition holds,
\* a rule being <<condition, result>>, or else the fallback
FirstMatch(rules, fallback) ==
    IF \E k \in 1..Len(rules) : rules[k][1]
    THEN rules[SetMin({k \in 1..Len(rules) : rules[k][1]})][2]
    ELSE fallback

FieldsTD == ("1" :> F_type) @@ ("2" :> F_description)
FieldsDF == ("1" :> F_description) @@ ("2" :> F_default)
FieldsTDF == ("1" :> F_type) @@ ("2" :> F_description) @@ ("3" :> F_default)
FieldsDTF == ("1" :> F_description) @@ ("2" :> F_type) @@ ("3" :> F_default)

\* the mapping the ordered rule list gives the header row
RuleListMapping ==
    CASE Len(headers) = 2 -> ("1" :> F_description)
      [] Len(headers) = 3 ->
            FirstMatch(<< <<HeaderHas(1, F_type), FieldsTD>>,
                          <<HeaderHas(2, F_default), FieldsDF>>,
                          <<\E w \in TypeLikeWords : HeaderHas(1, w), FieldsTD>> >>,
                       [merge |-> <<1, 2>>])
      [] Len(headers) = 4 ->
            FirstMatch(<< <<HeaderHas(1, F_type) /\ HeaderHas(3, F_default), FieldsTDF>>,
                          <<HeaderHas(3, F_default), FieldsDTF>>,
                          <<HeaderHas(1, F_type), FieldsTDF>> >>,
                       [merge |-> <<1, 2, 3>>])
      [] Len(headers) >= 5 -> [merge |-> [k \in 1..(Len(headers) - 1) |-> k]]

IsFieldMapping(m) ==
    /\ DOMAIN m \subseteq {"1", "2", "3"}
    /\ \A k \in DOMAIN m : m[k] \in {F_type, F_description, F_default}

IsMergeDirective(m) == DOMAIN m = {"merge"}

-----------------------------------------------------------------------------
(* Value escaping                                                          *)

\* the value to_jsx_string renders: the cell stripped, bold markers removed
CleanValue(v) == sub_bold(strip(v))

HasSpecial(v) == \E k \in 1..Len(v) : v[k] \in {BackTick, "<", ">", "{"}

RECURSIVE Unescape(_, _)
\* reads body from position k as a template-literal text: a backslash
\* escapes the backslash, backtick or dollar after it; ok is FALSE when a
\* backtick or dollar stands unescaped or a backslash escapes nothing
Unescape(body, k) ==
    IF k > Len(body) THEN [ok |-> TRUE, text |-> <<>>]
    ELSE IF body[k] = BackSlash
    THEN IF k + 1 <= Len(body) /\ body[k + 1] \in {BackSlash, BackTick, "$"}
         THEN LET rest == Unescape(body, k + 2)
              IN  [ok |-> rest.ok, text |-> <<body[k + 1]>> \o rest.text]
         ELSE [ok |-> FALSE, text |-> <<>>]
    ELSE IF body[k] \in {BackTick, "$"} THEN [ok |-> FALSE, text |-> <<>>]
    ELSE LET rest == Unescape(body, k + 1)
         IN  [ok |-> rest.ok, text |-> <<body[k]>> \o rest.text]

\* r is {`...`} and its text, read with the escapes undone, is v
IsTemplateOf(r, v) ==
    /\ Len(r) >= 4
    /\ r[1] = "{" /\ r[2] = BackTick /\ r[Len(r) - 1] = BackTick /\ r[Len(r)] = "}"
    /\ Unescape(SubSeq(r, 3, Len(r) - 2), 1).ok
    /\ Unescape(SubSeq(r, 3, Len(r) - 2), 1).text = v

\* r is "..." with no double quote inside, and its text is v with every
\* double quote written as the entity
IsQuotedOf(r, v) ==
    /\ Len(r) >= 2
    /\ r[1] = DQuote /\ r[Len(r)] = DQuote
    /\ \A k \in 2..(Len(r) - 1) : r[k] # DQuote
    /\ SubSeq(r, 2, Len(r) - 1)
         = concat([k \in 1..Len(v) |-> IF v[k] = DQuote THEN S_quot ELSE <<v[k]>>])

-----------------------------------------------------------------------------
(* Value omission                                                          *)

\* whether column c (0-based, c >= 1) of the row shows in the entry: as a
\* "Header: value" fragment under a merge mapping, as its field otherwise
ColumnRendered(c) ==
    IF "merge" \in DOMAIN mapping
    THEN contains(entry, strip(headers[c + 1]) \o <<":", " ">>)
    ELSE /\ IntKey(c) \in DOMAIN mapping
         /\ contains(entry, Indent6 \o mapping[IntKey(c)] \o <<":", " ">>)

\* C6: a column whose cell, stripped and with its bold markers removed, is
\* the em dash or the hyphen does not show in the entry, under a field
\* mapping and under a merge mapping
PlaceholderCellsAreOmitted ==
    pc = "returned" =>
        \A c \in 1..(Len(row) - 1) :
            (c < Len(headers) /\ CleanValue(row[c + 1]) \in {<<EmDash>>, <<"-">>})
                => ~ColumnRendered(c)

-----------------------------------------------------------------------------
(* Document Rewriter                                                       *)

\* the lines of a text, and the same without their newline
RawLines(text) == splitlines(text) \o <<>>
BareLines(text) == [k \in 1..Len(RawLines(text)) |-> rstrip_nl(RawLines(text)[k])] \o <<>>

\* the maximal runs <<s, e>> (0-based, half-open) of lines starting with "|"
MarkedRuns(ls) ==
    {run \in (0..Len(ls)) \X (0..Len(ls)) :
        /\ run[1] < run[2]
        /\ \A k \in run[1]..(run[2] - 1) : startswith(ls[k + 1], <<"|">>)
        /\ run[1] > 0 => ~startswith(ls[run[1]], <<"|">>)
        /\ run[2] < Len(ls) => ~startswith(ls[run[2] + 1], <<"|">>)}

\* the separator syntax: the marker, then one or more of dash, pipe, colon
\* and space, then nothing but white space
SeparatorSyntax(l) ==
    /\ Len(l) >= 2
    /\ l[1] = "|"
    /\ \E k \in 2..Len(l) :
          /\ \A m \in 2..k : l[m] \in {"-", "|", ":", " "}
          /\ \A m \in (k + 1)..Len(l) : IsSpace(l[m])

\* a block that fails parsing or yields no row
NotATable(ls, run) ==
    \/ run[2] - run[1] < 3
    \/ ~SeparatorSyntax(ls[run[1] + 2])
    \/ \A k \in (run[1] + 3)..run[2] : ~startswith(strip(ls[k]), <<"|">>)

NothingToConvert(text) ==
    \A run \in MarkedRuns(BareLines(text)) : NotATable(BareLines(text), run)

\* the number of places of text where p stands
Occurrences(text, p) ==
    Cardinality({k \in 1..(Len(text) - Len(p) + 1) : SubSeq(text, k, k + Len(p) - 1) = p})

ImportStatement == strip(IMPORT_LINE)

\* C8: a call on a document with no block, or with none but blocks that
\* fail parsing or yield no row, writes nothing, returns False and leaves
\* the file as it was
NothingToConvertIsNoOp ==
    [][(runs' = runs + 1 /\ NothingToConvert(content))
          => (content' = content /\ writes' = writes /\ ret' = FALSE)]_vars

\* a call has found blocks in a document with front matter and has
\* replaced none
NoOpWitness ==
    /\ runs = 1
    /\ NothingToConvert(before)
    /\ Len(trace.blocks) >= 1
    /\ Occurrences(before, S_fence) >= 2

\* the fragment of a block, from its lines
FragmentOf(block_lines) ==
    table_to_type_table(parse_table(block_lines).headers,
                        parse_table(block_lines).rows) \o <<"\n">>

\* the lines one forward pass over the document builds: a line outside the
\* blocks and a line of a block that is not a table are copied, a table
\* gives its fragment at its first line and nothing at its other lines
ForwardPass(text) ==
    LET raw == RawLines(text)
        ls == BareLines(text)
        tables == {run \in MarkedRuns(ls) : ~NotATable(ls, run)}
        at(k) == {run \in tables : run[1] <= k /\ k < run[2]}
        the(k) == CHOOSE run \in at(k) : TRUE
    IN  concat([k \in 1..Len(raw) |->
            IF at(k - 1) = {} THEN <<raw[k]>>
            ELSE IF the(k - 1)[1] = k - 1
            THEN <<FragmentOf(SubSeq(ls, the(k - 1)[1] + 1, the(k - 1)[2]))>>
            ELSE <<>>])

\* C9: after the last-to-first replacement, and before the import is added,
\* the lines are those a single forward pass builds: every line outside a
\* replaced block, a block that failed parsing included, unchanged and in
\* order, and one fragment in the place of each replaced block
SpliceEqualsForwardPass ==
    (runs >= 1 /\ MarkedRuns(BareLines(before)) # {})
        => trace.spliced = ForwardPass(before)

\* a call has replaced two blocks of one document
SpliceWitness ==
    /\ runs = 1
    /\ Len(trace.replaced) = 2
    /\ trace.replaced[1].end < trace.replaced[2].start

\* the entry lines of a fragment: four spaces, then the quoted key
EntryLines(jsx) ==
    SelectSeq(RawLines(jsx), LAMBDA l : startswith(l, Indent4 \o <<DQuote>>))

\* the entry lines of the fragment are those of the given rows, in order
EntriesAreRows(jsx, rows) ==
    /\ Len(EntryLines(jsx)) = Len(rows)
    /\ \A k \in 1..Len(rows) :
          startswith(EntryLines(jsx)[k],
                     Indent4 \o to_jsx_key(strip(rows[k][1])) \o <<":", " ", "{">>)

\* C10, as stated: the fragment of every replaced block holds one entry for
\* each parsed data row, in row order, keyed by the row's normalized first
\* cell, so that it has as many entries as the table has data rows
EveryRowHasAnEntry ==
    \A b \in 1..Len(trace.replaced) :
        EntriesAreRows(trace.replaced[b].jsx, trace.replaced[b].rows)

\* C10, amended: the fragment of every replaced block holds one entry for
\* each parsed data row whose first cell is not empty, in row order, keyed
\* by the row's normalized first cell, an entry with an empty object when
\* all its fields are omitted; a row with an empty first cell has no entry
EveryKeyedRowHasAnEntry ==
    \A b \in 1..Len(trace.replaced) :
        EntriesAreRows(trace.replaced[b].jsx,
                       SelectSeq(trace.replaced[b].rows, LAMBDA r : r[1] # <<>>))

\* a replaced table with a row without key, and with a row of key b whose
\* only field is a placeholder and whose entry is the empty object
KeyedRowWitness ==
    \E b \in 1..Len(trace.replaced) :
        /\ \E k \in 1..Len(trace.replaced[b].rows) : trace.replaced[b].rows[k][1] = <<>>
        /\ contains(trace.replaced[b].jsx,
                    Indent4 \o <<DQuote, "b", DQuote, ":", " ", "{", "}", ",">>)

\* no line of a fragment written by the last call starts with the marker
FragmentLinesUnmarked ==
    \A b \in 1..Len(trace.replaced) :
        \A k \in 1..Len(RawLines(trace.replaced[b].jsx)) :
            ~startswith(RawLines(trace.replaced[b].jsx)[k], <<"|">>)

\* C1: a call on the output of a call changes nothing, convert(convert(D))
\* = convert(D); no line of a generated fragment starts with "|", and the
\* repeated call adds no import line
ConversionIsIdempotent ==
    /\ []FragmentLinesUnmarked
    /\ [][(runs >= 1 /\ runs' = runs + 1)
             => (content' = content /\ ret' = FALSE /\ writes' = writes)]_vars

\* a second call on a converted document that still holds a block, one
\* that is not a table
IdempotenceWitness ==
    /\ runs = 2
    /\ contains(content, SubSeq(S_open, 1, 10))
    /\ Len(trace.blocks) >= 1
    /\ content = before

\* C2: the document written for a document with a valid table and without
\* the import statement holds the import statement exactly once
ExactlyOneImport ==
    (runs >= 1 /\ ~NothingToConvert(before) /\ Occurrences(before, ImportStatement) = 0)
        => Occurrences(content, ImportStatement) = 1

IsFamilyImport(l) == startswith(strip(l), S_import) /\ contains(l, S_fumadocs)

\* lines with x put in after the k-th line
InsertedAfter(ls, k, x) == SubSeq(ls, 1, k) \o x \o SubSeq(ls, k + 1, Len(ls))

\* C3: when the call adds the import line, it stands right after the last
\* import line of the component family when there is one, and else after
\* the second front-matter fence with one blank line between
ImportPlacedAfterLastFamilyImport ==
    (runs >= 1 /\ ret /\ content # concat(trace.spliced)) =>
        LET ls == trace.spliced
            family == {k \in 1..Len(ls) : IsFamilyImport(ls[k])}
            fences == {k \in 1..Len(ls) : strip(ls[k]) = S_fence}
        IN  IF family # {}
            THEN content = concat(InsertedAfter(ls, SetMax(family), <<IMPORT_LINE>>))
            ELSE /\ Cardinality(fences) >= 2
                 /\ content = concat(InsertedAfter(ls, Kth(fences, 2),
                                                   <<<<"\n">>, IMPORT_LINE>>))

====
